---- MODULE Spec2Model ----
(***************************************************************************)
(* A model of shopr's core: candidate-key derivation, the score store,     *)
(* Elo training, list ordering, quantity parsing and the population of     *)
(* the shopping list (src/shopr/main.py, src/shopr/elo.py,                 *)
(* src/shopr/trello.py).                                                   *)
(*                                                                         *)
(* Strings are sequences of one-character strings, so that the length of   *)
(* a key, the order of two tokens and the effect of every text operation   *)
(* are computed and not assumed.  Ratings are fixed-point numbers: a       *)
(* rating r is the integer r * Scale (thousandths of a rating point).      *)
(***************************************************************************)
EXTENDS Integers, Sequences, FiniteSets, TLC

VARIABLES
    heap,           \* the score stores that exist: store id -> (key -> rating)
    scores,         \* id of the store the running code calls `scores`
    last,           \* record of the last completed call on the store
    nmut,           \* number of store mutations made so far
    inNames,        \* names handed to lookup_candidates, in call order
    outCands,       \* what lookup_candidates returned for them so far
    checklist,      \* train: checklist.checkItems, a sequence of [name, pos]
    old_scores,     \* train: id of the store passed in as old_scores
    prior,          \* train: contents of the old_scores store when train was called
    i,              \* train: index of `current` in the outer loop
    j,              \* train: index of `compare` in the inner loop
    current_score,  \* train: the running current_score
    pc,             \* train: position in the code
    oitems,         \* order_list: checklist.checkItems, [id, name, pos, state]
    oidx,           \* order_list: index of the next item to process
    opos,           \* order_list: `pos` computed for the item processed last
    writes,         \* order_list: update_checklist_item calls made, in order
    ocards,         \* order_list: the cards of the board, [label, checklists]
    ocard,          \* order_list: index of the card the loop is at
    ocl,            \* order_list: index of the checklist the loop is at
    oname,          \* order_list: `new_name` computed for the item processed last
    olog,           \* order_list: client calls and item iterations, in order
    opc,            \* order_list: position in the code, or the exception raised
    qin,            \* quantity: the item name given to parse_item_quantity
    qparsed,        \* quantity: what parse_item_quantity did with it
    qformatted,     \* quantity: what format_item_with_quantity returned
    qreparsed,      \* quantity: what parsing the formatted name gave
    qpc,            \* quantity: position in the parse/format sequence
    board,          \* populate: the board's cards, [label, idChecklists]
    source,         \* populate: the recipe checklists' items when populate begins
    rlist,          \* populate: recipe card -> the list the card is in
    selected_recipes, \* populate: the cards get_list_cards returned
    item_data,      \* populate: the dict item_data, in insertion order
    target_checklist_id, \* populate: checklist the items are added to
    ops,            \* populate: the remote operations made, in order
    ppc,            \* populate: position in the code
    pcard,          \* populate: index of `card` in the loop over the board
    prec,           \* populate: index of `recipe_card` in the running loop
    tcards,         \* get_train_set: the board's cards, [label, idChecklists]
    tidx,           \* get_train_set: index in the running loop
    train_checklist_ids, \* get_train_set: the ids collected from the cards
    train_checklists, \* get_train_set: the checklists fetched so far
    tlog,           \* get_train_set: the client calls made, in order
    tpc             \* get_train_set: position in the code

vars == <<heap, scores, last, nmut, inNames, outCands, checklist, old_scores,
          prior, i, j, current_score, pc, oitems, oidx, opos, writes, ocards,
          ocard, ocl, oname, olog, opc,
          qin, qparsed, qformatted, qreparsed, qpc, board, source, rlist,
          selected_recipes, item_data, target_checklist_id, ops, ppc, pcard,
          prec, tcards, tidx, train_checklist_ids, train_checklists, tlog, tpc>>

storeVars  == <<heap, scores, last, nmut>>
deriveVars == <<inNames, outCands>>
trainVars  == <<checklist, old_scores, prior, i, j, current_score, pc>>
orderVars  == <<oitems, oidx, opos, writes, ocards, ocard, ocl, oname, olog, opc>>
quantityVars == <<qin, qparsed, qformatted, qreparsed, qpc>>
populateVars == <<board, source, rlist, selected_recipes, item_data,
                  target_checklist_id, ops, ppc, pcard, prec>>
trainSetVars == <<tcards, tidx, train_checklist_ids, train_checklists, tlog, tpc>>

-----------------------------------------------------------------------------
(* Bounds *)

MaxPieces == 2      \* a derived name is the concatenation of at most this many pieces
MaxMut    == 1      \* store mutations after construction (store specification)
MaxItems  == 3      \* items of a training checklist
MaxOrder  == 2      \* items of a checklist that is ordered

-----------------------------------------------------------------------------
(* Characters and strings *)

\* SUPERSCRIPT TWO (U+00B2), written "^2": a character of the category
\* "other number", which str.isdigit() accepts and int() and \d do not
Sup2 == "^2"

\* Unicode code points of the characters used, as Python compares strings.
CodePoint ==
    ("\t" :> 9) @@ (" " :> 32) @@ ("(" :> 40) @@ (")" :> 41) @@ ("," :> 44) @@
    ("0" :> 48) @@ ("1" :> 49) @@ ("2" :> 50) @@ ("3" :> 51) @@ ("4" :> 52) @@
    ("5" :> 53) @@ ("6" :> 54) @@ ("7" :> 55) @@ ("8" :> 56) @@ ("9" :> 57) @@
    ("A" :> 65) @@ ("B" :> 66) @@ ("C" :> 67) @@ (Sup2 :> 178) @@
    ("[" :> 91) @@ ("]" :> 93) @@ ("a" :> 97) @@ ("b" :> 98) @@ ("c" :> 99) @@
    ("d" :> 100) @@ ("e" :> 101) @@ ("n" :> 110) @@ ("o" :> 111) @@
    ("r" :> 114) @@ ("s" :> 115) @@ ("t" :> 116) @@ ("u" :> 117)

\* str.lower() on one character
LowerChar(c) ==
    IF CodePoint[c] >= 65 /\ CodePoint[c] <= 90
    THEN CHOOSE d \in DOMAIN CodePoint : CodePoint[d] = CodePoint[c] + 32
    ELSE c

\* str.lower()
Lower(s) == [k \in 1..Len(s) |-> LowerChar(s[k])]

IsDigit(c) == CodePoint[c] >= 48 /\ CodePoint[c] <= 57

IsSpace(c) == c \in {" ", "\t"}

\* the literal "[unsorted]" that lookup_candidates removes
MarkerText == <<"[", "u", "n", "s", "o", "r", "t", "e", "d", "]">>

\* UNSORTED_TAG = " [unsorted]"
UNSORTED_TAG == <<" ">> \o MarkerText

\* s.replace(old, ""): leftmost non-overlapping occurrences are removed
RECURSIVE RemoveAll(_, _)
RemoveAll(s, old) ==
    IF Len(s) < Len(old) THEN s
    ELSE IF SubSeq(s, 1, Len(old)) = old
         THEN RemoveAll(SubSeq(s, Len(old) + 1, Len(s)), old)
         ELSE <<Head(s)>> \o RemoveAll(Tail(s), old)

\* re.sub(r"[\d\(\)]", "", s)
RemoveDigitsParens(s) == SelectSeq(s, LAMBDA c : ~(IsDigit(c) \/ c \in {"(", ")"}))

\* re.sub(r"\s+", " ", s): every maximal run of whitespace becomes one space
RECURSIVE CollapseSpace(_)
CollapseSpace(s) ==
    IF s = <<>> THEN <<>>
    ELSE IF IsSpace(Head(s))
         THEN IF Len(s) >= 2 /\ IsSpace(s[2])
              THEN CollapseSpace(Tail(s))
              ELSE <<" ">> \o CollapseSpace(Tail(s))
         ELSE <<Head(s)>> \o CollapseSpace(Tail(s))

RECURSIVE LStrip(_)
LStrip(s) == IF s # <<>> /\ IsSpace(Head(s)) THEN LStrip(Tail(s)) ELSE s

RECURSIVE RStrip(_)
RStrip(s) ==
    IF s # <<>> /\ IsSpace(s[Len(s)]) THEN RStrip(SubSeq(s, 1, Len(s) - 1)) ELSE s

\* str.strip()
Strip(s) == RStrip(LStrip(s))

\* s.split(" "): split at every single space; "" gives [""]
RECURSIVE SplitSpace(_)
SplitSpace(s) ==
    IF \E k \in 1..Len(s) : s[k] = " "
    THEN LET k == CHOOSE m \in 1..Len(s) :
                      s[m] = " " /\ \A n \in 1..(m - 1) : s[n] # " "
         IN  <<SubSeq(s, 1, k - 1)>> \o SplitSpace(SubSeq(s, k + 1, Len(s)))
    ELSE <<s>>

\* s < t for Python strings: lexicographic by code point
RECURSIVE StrLess(_, _)
StrLess(s, t) ==
    IF t = <<>> THEN FALSE
    ELSE IF s = <<>> THEN TRUE
    ELSE IF CodePoint[Head(s)] # CodePoint[Head(t)]
         THEN CodePoint[Head(s)] < CodePoint[Head(t)]
         ELSE StrLess(Tail(s), Tail(t))

\* insert w into the sorted sequence ws, after the elements that are <= w
RECURSIVE InsertSorted(_, _)
InsertSorted(w, ws) ==
    IF ws = <<>> THEN <<w>>
    ELSE IF StrLess(w, Head(ws)) THEN <<w>> \o ws
         ELSE <<Head(ws)>> \o InsertSorted(w, Tail(ws))

\* sorted(ws)
RECURSIVE Sorted(_)
Sorted(ws) == IF ws = <<>> THEN <<>> ELSE InsertSorted(ws[Len(ws)], Sorted(SubSeq(ws, 1, Len(ws) - 1)))

\* ",".join(ws)
RECURSIVE JoinComma(_)
JoinComma(ws) ==
    IF ws = <<>> THEN <<>>
    ELSE IF Len(ws) = 1 THEN ws[1]
         ELSE ws[1] \o <<",">> \o JoinComma(Tail(ws))

\* the concatenation of a sequence of strings
RECURSIVE Concat(_)
Concat(ps) == IF ps = <<>> THEN <<>> ELSE Head(ps) \o Concat(Tail(ps))

\* every concatenation of at most MaxPieces pieces of the set P
NamesOver(P) ==
    {Concat(ps) : ps \in UNION {[1..n -> P] : n \in 0..MaxPieces}}

-----------------------------------------------------------------------------
(* lookup_candidates *)

\* lookup_candidates without the final sort
lookup_candidates_unsorted(name) ==
    SplitSpace(Strip(CollapseSpace(RemoveDigitsParens(RemoveAll(Lower(name), MarkerText)))))

\* lookup_candidates that leaves the unsorted marker in the name
lookup_candidates_marker_kept(name) ==
    Sorted(SplitSpace(Strip(CollapseSpace(RemoveDigitsParens(Lower(name))))))

lookup_candidates(name) ==
    Sorted(SplitSpace(Strip(CollapseSpace(RemoveDigitsParens(RemoveAll(Lower(name), MarkerText))))))

\* full_key = ",".join(candidates)
FullKey(name) == JoinComma(lookup_candidates(name))

\* all_candidates = [full_key] + candidates
AllCandidates(name) == <<FullKey(name)>> \o lookup_candidates(name)

-----------------------------------------------------------------------------
(* Ratings and the score store *)

\* ratings are floats; here a rating is an integer number of 1/Scale points
Scale == 1000

DEFAULT_SCORE == 1000 * Scale

\* a Scores dictionary is a function from its keys to their ratings
EmptyDict == [k \in {} |-> 0]

\* d[k] = v
DictSet(d, k, v) == [x \in (DOMAIN d) \cup {k} |-> IF x = k THEN v ELSE d[x]]

\* make_scores(data): a fresh defaultdict holding the entries of data
make_scores(data) == [k \in DOMAIN data |-> data[k]]

\* scores[key] on the defaultdict: the value read
GetValue(d, key) == IF key \in DOMAIN d THEN d[key] ELSE DEFAULT_SCORE

\* scores[key] on the defaultdict: the dictionary after the read
\* (defaultdict.__missing__ stores the default under a key that was absent)
GetEffect(d, key) == IF key \in DOMAIN d THEN d ELSE DictSet(d, key, DEFAULT_SCORE)

\* max(cs, key=len) for a non-empty cs: the first element of greatest length
RECURSIVE MaxByLen(_)
MaxByLen(cs) ==
    IF Len(cs) = 1 THEN cs[1]
    ELSE LET m == MaxByLen(SubSeq(cs, 1, Len(cs) - 1))
         IN  IF Len(cs[Len(cs)]) > Len(m) THEN cs[Len(cs)] ELSE m

\* as MaxByLen, but the last element of greatest length
RECURSIVE MaxByLenLast(_)
MaxByLenLast(cs) ==
    IF Len(cs) = 1 THEN cs[1]
    ELSE LET m == MaxByLenLast(SubSeq(cs, 1, Len(cs) - 1))
         IN  IF Len(cs[Len(cs)]) >= Len(m) THEN cs[Len(cs)] ELSE m

\* as MaxByLen, but the first element of smallest length
RECURSIVE MinByLen(_)
MinByLen(cs) ==
    IF Len(cs) = 1 THEN cs[1]
    ELSE LET m == MinByLen(SubSeq(cs, 1, Len(cs) - 1))
         IN  IF Len(cs[Len(cs)]) < Len(m) THEN cs[Len(cs)] ELSE m

\* lookup with ties between longest candidates going to the last one
lookup_last_longest(d, name) ==
    LET scored == SelectSeq(AllCandidates(name), LAMBDA c : c \in DOMAIN d)
    IN  IF scored = <<>> THEN DEFAULT_SCORE ELSE d[MaxByLenLast(scored)]

\* lookup preferring the shortest scored candidate
lookup_shortest(d, name) ==
    LET scored == SelectSeq(AllCandidates(name), LAMBDA c : c \in DOMAIN d)
    IN  IF scored = <<>> THEN DEFAULT_SCORE ELSE d[MinByLen(scored)]

lookup(d, name) ==
    LET scored == SelectSeq(AllCandidates(name), LAMBDA c : c \in DOMAIN d)
    IN  IF scored = <<>> THEN DEFAULT_SCORE ELSE d[MaxByLen(scored)]

\* for candidate in cs: d[candidate] = score
RECURSIVE SetAll(_, _, _)
SetAll(d, cs, score) ==
    IF cs = <<>> THEN d ELSE SetAll(DictSet(d, Head(cs), score), Tail(cs), score)

\* update writing the full key only
update_full_key_only(d, name, score) == DictSet(d, FullKey(name), score)

\* update(scores, name, score): the dictionary afterwards
update(d, name, score) == SetAll(d, AllCandidates(name), score)

-----------------------------------------------------------------------------
(* The store specification: one store, read and written by the three       *)
(* entry points scores[key], lookup and update.                            *)

Str_a     == <<"a">>
Str_b     == <<"b">>
Str_a_b   == <<"a", ",", "b">>

Str_B_a  == <<"B", " ", "a">>
Str_Bc_a == <<"B", "c", " ", "a">>
Str_bc   == <<"b", "c">>
Str_a_2  == <<" ", "a", " ", "(", "2", ")">>

\* "[unso1rted]": the marker text with a digit inside
Str_marker_digit == <<"[", "u", "n", "s", "o", "1", "r", "t", "e", "d", "]">>

\* item names: one word, two words of equal length, two words of different
\* length, a word with a quantity, and a word that turns into the marker
StoreNames == {Str_a, Str_b, Str_B_a, Str_Bc_a, Str_a_2, Str_marker_digit}

\* keys read directly with scores[key]
StoreKeys == {Str_a, Str_a_b, <<>>}

StoreRatings == {500 * Scale, 600 * Scale}

\* the contents of scores.json the store is built from
StoreData ==
    { EmptyDict,
      (Str_a_b :> 500 * Scale) @@ (Str_a :> 600 * Scale),
      (Str_a :> 600 * Scale) @@ (Str_b :> 500 * Scale) @@ (Str_bc :> 700 * Scale) }

NoCall == [fn |-> "none", arg |-> <<>>, score |-> 0, ret |-> 0, before |-> EmptyDict]

DeriveIdle == inNames = <<>> /\ outCands = <<>>

TrainIdle ==
    /\ checklist = <<>>
    /\ old_scores = 0
    /\ prior = EmptyDict
    /\ i = 0
    /\ j = 0
    /\ current_score = 0
    /\ pc = "idle"

OrderIdle ==
    /\ oitems = <<>>
    /\ oidx = 0
    /\ opos = 0
    /\ writes = <<>>
    /\ ocards = <<>>
    /\ ocard = 0
    /\ ocl = 0
    /\ oname = <<>>
    /\ olog = <<>>
    /\ opc = "idle"

NotParsed == [raises |-> "", base |-> <<>>, quantity |-> 0]

QuantityIdle ==
    /\ qin = <<>>
    /\ qparsed = NotParsed
    /\ qformatted = <<>>
    /\ qreparsed = NotParsed
    /\ qpc = "idle"

TrainSetIdle ==
    /\ tcards = <<>>
    /\ tidx = 0
    /\ train_checklist_ids = <<>>
    /\ train_checklists = <<>>
    /\ tlog = <<>>
    /\ tpc = "idle"

PopulateIdle ==
    /\ board = <<>>
    /\ source = <<>>
    /\ rlist = <<>>
    /\ selected_recipes = <<>>
    /\ item_data = <<>>
    /\ target_checklist_id = ""
    /\ ops = <<>>
    /\ ppc = "idle"
    /\ pcard = 0
    /\ prec = 0

StoreInit ==
    /\ \E data \in StoreData : heap = (1 :> make_scores(data))
    /\ scores = 1
    /\ last = NoCall
    /\ nmut = 0
    /\ DeriveIdle
    /\ TrainIdle
    /\ OrderIdle
    /\ QuantityIdle
    /\ PopulateIdle
    /\ TrainSetIdle

\* value = scores[key]
GetItem(key) ==
    /\ key \in DOMAIN heap[scores] \/ nmut < MaxMut
    /\ last' = [fn |-> "get", arg |-> key, score |-> 0,
                ret |-> GetValue(heap[scores], key), before |-> heap[scores]]
    /\ heap' = [heap EXCEPT ![scores] = GetEffect(heap[scores], key)]
    /\ nmut' = IF key \in DOMAIN heap[scores] THEN nmut ELSE nmut + 1
    /\ UNCHANGED <<scores, deriveVars, trainVars, orderVars, quantityVars, trainSetVars, populateVars>>

\* value = lookup(scores, name)
Lookup(name) ==
    /\ last' = [fn |-> "lookup", arg |-> name, score |-> 0,
                ret |-> lookup(heap[scores], name), before |-> heap[scores]]
    /\ UNCHANGED <<heap, scores, nmut, deriveVars, trainVars, orderVars, quantityVars, trainSetVars, populateVars>>

\* update(scores, name, score)
Update(name, score) ==
    /\ nmut < MaxMut
    /\ last' = [fn |-> "update", arg |-> name, score |-> score,
                ret |-> 0, before |-> heap[scores]]
    /\ heap' = [heap EXCEPT ![scores] = update(heap[scores], name, score)]
    /\ nmut' = nmut + 1
    /\ UNCHANGED <<scores, deriveVars, trainVars, orderVars, quantityVars, trainSetVars, populateVars>>

StoreNext ==
    \/ \E key \in StoreKeys : GetItem(key)
    \/ \E name \in StoreNames : Lookup(name)
    \/ \E name \in StoreNames, score \in StoreRatings : Update(name, score)

SpecStore == StoreInit /\ [][StoreNext]_vars

\* the candidates of a name as a set
CandidateSet(name) == {AllCandidates(name)[k] : k \in 1..Len(AllCandidates(name))}

(* C1: lookup returns the default 1000.0 when no candidate of [fullKey] +   *)
(* tokens is a key of the store; otherwise it returns the rating stored     *)
(* under the present candidate of greatest length, the first such candidate *)
(* in the ordered list winning ties.                                        *)
C1_LookupLongestFirst ==
    last.fn = "lookup" =>
        LET cs == AllCandidates(last.arg)
            d  == last.before
            present(k) == cs[k] \in DOMAIN d
        IN  IF \A k \in 1..Len(cs) : ~present(k)
            THEN last.ret = DEFAULT_SCORE
            ELSE \E k \in 1..Len(cs) :
                    /\ present(k)
                    /\ \A m \in 1..Len(cs) : present(m) => Len(cs[m]) <= Len(cs[k])
                    /\ \A m \in 1..(k - 1) : present(m) => Len(cs[m]) < Len(cs[k])
                    /\ last.ret = d[cs[k]]

\* a lookup decided by the tie rule: two present candidates of the greatest
\* length hold different ratings and the first one's rating was returned
C1_Witness ==
    /\ last.fn = "lookup"
    /\ LET cs == AllCandidates(last.arg)
           d  == last.before
       IN  \E k, m \in 1..Len(cs) :
              /\ k < m
              /\ cs[k] \in DOMAIN d /\ cs[m] \in DOMAIN d
              /\ Len(cs[k]) = Len(cs[m])
              /\ \A n \in 1..Len(cs) : cs[n] \in DOMAIN d => Len(cs[n]) <= Len(cs[k])
              /\ \A n \in 1..(k - 1) : cs[n] \notin DOMAIN d
              /\ d[cs[k]] # d[cs[m]]
              /\ last.ret = d[cs[k]]

(* C2: whenever the full key of the name is a key of the store, lookup      *)
(* returns the rating stored under the full key, whatever single-token keys *)
(* are also present.                                                        *)
C2_FullKeyPrecedence ==
    (last.fn = "lookup" /\ FullKey(last.arg) \in DOMAIN last.before)
        => last.ret = last.before[FullKey(last.arg)]

\* a lookup where the full key and a single token are both stored, with
\* different ratings
C2_Witness ==
    /\ last.fn = "lookup"
    /\ FullKey(last.arg) \in DOMAIN last.before
    /\ \E k \in 1..Len(lookup_candidates(last.arg)) :
          LET t == lookup_candidates(last.arg)[k]
          IN  /\ t # FullKey(last.arg)
              /\ t \in DOMAIN last.before
              /\ last.before[t] # last.before[FullKey(last.arg)]
    /\ last.ret = last.before[FullKey(last.arg)]

(* C3: after update(s, n, r), lookup(s, n) returns r and lookup(s, t)       *)
(* returns r for every single token t derived from n.                       *)
C3_UpdateLookupRoundTrip ==
    last.fn = "update" =>
        /\ lookup(heap[scores], last.arg) = last.score
        /\ \A k \in 1..Len(lookup_candidates(last.arg)) :
              lookup(heap[scores], lookup_candidates(last.arg)[k]) = last.score

(* C4: update sets the entry of the full key and of every single token to   *)
(* the given rating, overwriting prior values, and leaves every other key   *)
(* and its rating unchanged.                                                *)
C4_UpdateFrame ==
    last.fn = "update" =>
        LET d == heap[scores]
            written == CandidateSet(last.arg)
        IN  /\ DOMAIN d = (DOMAIN last.before) \cup written
            /\ \A c \in written : d[c] = last.score
            /\ \A c \in (DOMAIN last.before) \ written : d[c] = last.before[c]

\* an update of a name with two tokens that overwrote a different prior
\* rating and left a key of another name in place
C4_Witness ==
    /\ last.fn = "update"
    /\ Len(lookup_candidates(last.arg)) >= 2
    /\ \E c \in CandidateSet(last.arg) :
          c \in DOMAIN last.before /\ last.before[c] # last.score
    /\ \E c \in DOMAIN last.before : c \notin CandidateSet(last.arg)
    /\ \A c \in CandidateSet(last.arg) : heap[scores][c] = last.score

(* C5: reading the rating of a key that is absent from the store returns    *)
(* the default 1000.0 and the key is still absent afterwards; lookup leaves *)
(* the key set and the ratings of the store exactly as they were.           *)
C5_ReadNeverGrows ==
    /\ (last.fn = "get" /\ last.arg \notin DOMAIN last.before)
          => (last.ret = DEFAULT_SCORE /\ last.arg \notin DOMAIN heap[scores])
    /\ last.fn = "lookup" => heap[scores] = last.before

-----------------------------------------------------------------------------
(* The derivation specification: lookup_candidates applied to two names.   *)

DerivePieces ==
    { <<"a">>, <<"B", " ">>, <<" ", "b">>, <<"\t", "A">>,
      <<"2", "[", "u", "n", "s", "o", "r", "t", "e", "d", "]">> }

DeriveNames == NamesOver(DerivePieces)

DeriveInit ==
    /\ \E n1, n2 \in DeriveNames : inNames = <<n1, n2>>
    /\ outCands = <<>>
    /\ heap = (1 :> EmptyDict)
    /\ scores = 1
    /\ last = NoCall
    /\ nmut = 0
    /\ TrainIdle
    /\ OrderIdle
    /\ QuantityIdle
    /\ PopulateIdle
    /\ TrainSetIdle

\* candidates = lookup_candidates(name), for the next name
Derive ==
    /\ Len(outCands) < Len(inNames)
    /\ outCands' = Append(outCands, lookup_candidates(inNames[Len(outCands) + 1]))
    /\ UNCHANGED <<inNames, storeVars, trainVars, orderVars, quantityVars, trainSetVars, populateVars>>

DeriveNext == Derive

SpecDerive == DeriveInit /\ [][DeriveNext]_vars

\* the words of a name: its maximal runs of non-whitespace characters
WordSpans(s) ==
    {sp \in (1..Len(s)) \X (1..Len(s)) :
        /\ sp[1] <= sp[2]
        /\ \A k \in sp[1]..sp[2] : ~IsSpace(s[k])
        /\ (sp[1] = 1 \/ IsSpace(s[sp[1] - 1]))
        /\ (sp[2] = Len(s) \/ IsSpace(s[sp[2] + 1]))}

WordAt(s, sp) == Lower(SubSeq(s, sp[1], sp[2]))

WordCount(s, w) == Cardinality({sp \in WordSpans(s) : WordAt(s, sp) = w})

\* s and t are made of the same words, whatever their order, their case and
\* the whitespace between them
SameWords(s, t) ==
    \A w \in {WordAt(s, sp) : sp \in WordSpans(s)} \cup {WordAt(t, sp) : sp \in WordSpans(t)} :
        WordCount(s, w) = WordCount(t, w)

IsAscending(ws) == \A k \in 1..(Len(ws) - 1) : ~StrLess(ws[k + 1], ws[k])

(* C9: derive(name) returns its tokens sorted ascending, and two names made *)
(* of the same words in a different order, case or whitespace derive the    *)
(* same token sequence and the same full key.                               *)
C9_DeriveOrderIndependent ==
    /\ \A k \in 1..Len(outCands) : IsAscending(outCands[k])
    /\ \A k, m \in 1..Len(outCands) :
          SameWords(inNames[k], inNames[m])
              => /\ outCands[k] = outCands[m]
                 /\ JoinComma(outCands[k]) = JoinComma(outCands[m])

\* two different names of the same two distinct words, written in opposite
\* orders, have both been derived
C9_Witness ==
    /\ Len(outCands) = 2
    /\ inNames[1] # inNames[2]
    /\ SameWords(inNames[1], inNames[2])
    /\ Len(outCands[1]) = 2
    /\ outCands[1][1] # outCands[1][2]
    /\ lookup_candidates_unsorted(inNames[1]) # lookup_candidates_unsorted(inNames[2])
    /\ outCands[1] = outCands[2]

-----------------------------------------------------------------------------
(* Elo (src/shopr/elo.py), in fixed point: an expected score e is the      *)
(* integer e * Scale, rounded to the nearest 1/Scale.                      *)

K_FACTOR == 32

ELO_DIVISOR == 400

\* 10 ** (k / 8) * 1000 for k = 0..8, the powers 10 ** x is interpolated from
Pow10Table == <<1000, 1334, 1778, 2371, 3162, 4217, 5623, 7499, 10000>>

RECURSIVE IntPow10(_)
IntPow10(n) == IF n = 0 THEN 1 ELSE 10 * IntPow10(n - 1)

\* 1 / (1 + 10 ** (d / 400)) * Scale for a rating difference d >= 0
ExpectedUp(d) ==
    LET period == ELO_DIVISOR * Scale
        step   == period \div 8
        q      == d \div period
        r      == d % period
        k      == r \div step
        m      == Pow10Table[k + 1]
                    + ((Pow10Table[k + 2] - Pow10Table[k + 1]) * (r % step)) \div step
        den    == 1000 + IntPow10(q) * m
    IN  IF q >= 4 THEN 0 ELSE (2 * 1000 * Scale + den) \div (2 * den)

\* the largest x for which the float 10 ** x is finite, in thousandths
MAX_EXPONENT_MILLI == 308254

\* 10 ** ((rating_b - rating_a) / 400) raises OverflowError
Overflows(rating_a, rating_b) ==
    (rating_b - rating_a) \div ELO_DIVISOR > (MAX_EXPONENT_MILLI * Scale) \div 1000

\* EloRank.get_expected: 1 / (1 + 10 ** ((rating_b - rating_a) / 400))
get_expected(rating_a, rating_b) ==
    IF rating_b - rating_a >= 0
    THEN ExpectedUp(rating_b - rating_a)
    ELSE Scale - ExpectedUp(rating_a - rating_b)

\* update_rating moving the rating away from the result
update_rating_reversed(expected, actual, current) ==
    current - K_FACTOR * (actual * Scale - expected)

\* EloRank.update_rating: current + k_factor * (actual - expected)
update_rating(expected, actual, current) ==
    current + K_FACTOR * (actual * Scale - expected)

\* the actual score with the outcome inverted
ActualInverted(pos_self, pos_other) == IF pos_self < pos_other THEN 1 ELSE 0

\* current_actual / compare_actual: 0 if self.pos < other.pos else 1
Actual(pos_self, pos_other) == IF pos_self < pos_other THEN 0 ELSE 1

-----------------------------------------------------------------------------
(* train, one loop step per action                                         *)

Str_c   == <<"c">>
Str_b_a == <<"b", " ", "a">>

\* item names: a single word, two words sharing that word, a name with a
\* comma that equals the full key of the two words, and an unrelated word
TrainNames == {Str_a, Str_b_a, Str_a_b, Str_c}

\* item positions: enough for three items at pairwise distinct positions
TrainPositions == {1, 2, 3}

TrainItems == [name : TrainNames, pos : TrainPositions]

\* the contents of a non-empty store handed to train: ratings close to the
\* default, ratings so far apart that a comparison changes neither, and
\* ratings so far apart that the power in get_expected overflows; the
\* longest checklists are trained on from the empty store only
TrainData ==
    { (Str_a :> 1100 * Scale) @@ (Str_c :> 900 * Scale),
      (Str_a :> 1000 * Scale) @@ (Str_c :> 8000 * Scale),
      (Str_a :> 1000 * Scale) @@ (Str_c :> 125000 * Scale) }

TrainInit ==
    /\ \/ /\ heap = (1 :> make_scores(EmptyDict))
          /\ \E n \in 0..MaxItems : checklist \in [1..n -> TrainItems]
       \/ /\ \E data \in TrainData : heap = (1 :> make_scores(data))
          /\ \E n \in 0..(MaxItems - 1) : checklist \in [1..n -> TrainItems]
    /\ scores = 1
    /\ old_scores = 0
    /\ prior = EmptyDict
    /\ i = 0
    /\ j = 0
    /\ current_score = 0
    /\ pc = "call"
    /\ last = NoCall
    /\ nmut = 0
    /\ DeriveIdle
    /\ OrderIdle
    /\ QuantityIdle
    /\ PopulateIdle
    /\ TrainSetIdle

\* the store train would work on if it did not copy: old_scores itself
SameStore(h, old) == old

\* scores = make_scores(dict(old_scores)): the id of the new store
NewStore(h, old) == CHOOSE id \in 1..(Cardinality(DOMAIN h) + 1) : id \notin DOMAIN h

\* scores = train(checklist, scores) is entered
TrainCall ==
    /\ pc = "call"
    /\ old_scores' = scores
    /\ prior' = heap[scores]
    /\ LET new == NewStore(heap, scores)
       IN  /\ heap' = [id \in (DOMAIN heap) \cup {new} |->
                          IF id = new THEN make_scores(heap[scores]) ELSE heap[id]]
           /\ scores' = new
    /\ i' = 1
    /\ pc' = "outer"
    /\ UNCHANGED <<checklist, j, current_score, last, nmut, deriveVars, orderVars, quantityVars, trainSetVars, populateVars>>

\* for current in checklist.checkItems: current_score = lookup(scores, current.name)
OuterBegin ==
    /\ pc = "outer"
    /\ i <= Len(checklist)
    /\ current_score' = lookup(heap[scores], checklist[i].name)
    /\ j' = 1
    /\ pc' = "inner"
    /\ UNCHANGED <<heap, scores, checklist, old_scores, prior, i, last, nmut,
                   deriveVars, orderVars, quantityVars, trainSetVars, populateVars>>

\* a skip of nothing but an item paired with itself
SkipsSelf(items, ii, jj) == ii = jj

\* if current.pos == compare.pos: the pair is skipped
Skips(items, ii, jj) == items[ii].pos = items[jj].pos

\* the running score kept as it was read before the inner loop
KeepCurrentScore(running, new_current_score) == running

\* current_score = new_current_score
NextCurrentScore(running, new_current_score) == new_current_score

\* update that also rates the empty key
update_and_empty_key(d, name, score) ==
    LET u == update(d, name, score)
    IN  [c \in (DOMAIN u) \cup {<<>>} |-> IF c = <<>> THEN score ELSE u[c]]

\* update(scores, name, score) as train calls it
train_update(d, name, score) == update(d, name, score)

\* if current.pos == compare.pos: continue
InnerSkip ==
    /\ pc = "inner"
    /\ j <= Len(checklist)
    /\ Skips(checklist, i, j)
    /\ j' = j + 1
    /\ UNCHANGED <<heap, scores, checklist, old_scores, prior, i, current_score, pc,
                   last, nmut, deriveVars, orderVars, quantityVars, trainSetVars, populateVars>>

\* the body of the inner loop: both ratings are updated
InnerCompare ==
    /\ pc = "inner"
    /\ j <= Len(checklist)
    /\ ~Skips(checklist, i, j)
    /\ LET current == checklist[i]
           compare == checklist[j]
           compare_score == lookup(heap[scores], compare.name)
           current_expected == get_expected(current_score, compare_score)
           current_actual == Actual(current.pos, compare.pos)
           new_current_score ==
               update_rating(current_expected, current_actual, current_score)
           scores1 == train_update(heap[scores], current.name, new_current_score)
           running == NextCurrentScore(current_score, new_current_score)
           compare_expected == get_expected(compare_score, running)
           compare_actual == Actual(compare.pos, current.pos)
           new_compare_score ==
               update_rating(compare_expected, compare_actual, compare_score)
           scores2 == train_update(scores1, compare.name, new_compare_score)
       IN  IF Overflows(current_score, compare_score)
           THEN /\ pc' = "OverflowError"
                /\ UNCHANGED <<heap, current_score, j>>
           ELSE IF Overflows(compare_score, running)
           THEN /\ pc' = "OverflowError"
                /\ heap' = [heap EXCEPT ![scores] = scores1]
                /\ current_score' = running
                /\ j' = j
           ELSE /\ heap' = [heap EXCEPT ![scores] = scores2]
                /\ current_score' = running
                /\ j' = j + 1
                /\ pc' = pc
    /\ UNCHANGED <<scores, checklist, old_scores, prior, i, last, nmut,
                   deriveVars, orderVars, quantityVars, trainSetVars, populateVars>>

\* the inner loop is exhausted: next item of the outer loop
InnerEnd ==
    /\ pc = "inner"
    /\ j > Len(checklist)
    /\ i' = i + 1
    /\ pc' = "outer"
    /\ UNCHANGED <<heap, scores, checklist, old_scores, prior, j, current_score,
                   last, nmut, deriveVars, orderVars, quantityVars, trainSetVars, populateVars>>

\* return scores
TrainReturn ==
    /\ pc = "outer"
    /\ i > Len(checklist)
    /\ pc' = "done"
    /\ UNCHANGED <<heap, scores, checklist, old_scores, prior, i, j, current_score,
                   last, nmut, deriveVars, orderVars, quantityVars, trainSetVars, populateVars>>

TrainNext ==
    \/ TrainCall
    \/ OuterBegin
    \/ InnerSkip
    \/ InnerCompare
    \/ InnerEnd
    \/ TrainReturn

SpecTrain == TrainInit /\ [][TrainNext]_vars

\* the single tokens of a name as a set
TokenSet(name) == {lookup_candidates(name)[k] : k \in 1..Len(lookup_candidates(name))}

\* what the store train returned holds for the k-th item's name
Trained(k) == lookup(heap[scores], checklist[k].name)

(* C6: train never mutates its input store: after train(checklist, prior)   *)
(* the prior store has the same keys and ratings as before the call, and    *)
(* the returned store is a distinct store.                                  *)
C6_TrainKeepsPrior ==
    pc \in {"outer", "inner", "done"} =>
        /\ heap[old_scores] = prior
        /\ scores # old_scores

\* train has returned a store with a key the prior store lacks and another
\* rating for a key the prior store has
C6_Witness ==
    /\ pc = "done"
    /\ \E c \in DOMAIN heap[scores] : c \notin DOMAIN prior
    /\ \E c \in DOMAIN prior : heap[scores][c] # prior[c]
    /\ heap[old_scores] = prior

(* C7: for every checklist of two items with distinct positions (any names, *)
(* any prior store, either list order), the returned store rates the name   *)
(* of the lower-position item strictly lower than the other item's name.    *)
C7_TwoItemsStrict ==
    (pc = "done" /\ Len(checklist) = 2 /\ checklist[1].pos # checklist[2].pos)
        => \A k, m \in 1..2 :
              checklist[k].pos < checklist[m].pos => Trained(k) < Trained(m)

(* C7 as amended: the same for two names that share no candidate key when   *)
(* the prior store does not rate the lower-position name above the other.   *)
C7_TwoItemsStrictDisjoint ==
    (pc = "done" /\ Len(checklist) = 2 /\ checklist[1].pos # checklist[2].pos
       /\ CandidateSet(checklist[1].name) \cap CandidateSet(checklist[2].name) = {})
        => \A k, m \in 1..2 :
              (/\ checklist[k].pos < checklist[m].pos
               /\ lookup(prior, checklist[k].name) <= lookup(prior, checklist[m].name))
                  => Trained(k) < Trained(m)

\* two items with disjoint keys, listed in the reverse of their positions and
\* rated differently by the prior store, have been trained on
C7_Witness ==
    /\ pc = "done"
    /\ Len(checklist) = 2
    /\ checklist[2].pos < checklist[1].pos
    /\ CandidateSet(checklist[1].name) \cap CandidateSet(checklist[2].name) = {}
    /\ lookup(prior, checklist[2].name) < lookup(prior, checklist[1].name)
    /\ Trained(2) < lookup(prior, checklist[2].name)
    /\ Trained(1) > lookup(prior, checklist[1].name)

ThreeDistinctPositions ==
    /\ Len(checklist) = 3
    /\ \A k, m \in 1..3 : k # m => checklist[k].pos # checklist[m].pos

(* C8: for three items with pairwise distinct positions and names that      *)
(* share no token, trained from an empty prior store, the ratings of the    *)
(* returned store are strictly increasing in position order.                *)
C8_ThreeItemsIncreasing ==
    (/\ pc = "done"
     /\ ThreeDistinctPositions
     /\ prior = EmptyDict
     /\ \A k, m \in 1..3 :
           k # m => TokenSet(checklist[k].name) \cap TokenSet(checklist[m].name) = {})
        => \A k, m \in 1..3 :
              checklist[k].pos < checklist[m].pos => Trained(k) < Trained(m)

(* C8 as amended: the same for names that share no candidate key, neither   *)
(* a token nor a full key.                                                  *)
C8_ThreeItemsIncreasingDisjoint ==
    (/\ pc = "done"
     /\ ThreeDistinctPositions
     /\ prior = EmptyDict
     /\ \A k, m \in 1..3 :
           k # m => CandidateSet(checklist[k].name) \cap CandidateSet(checklist[m].name) = {})
        => \A k, m \in 1..3 :
              checklist[k].pos < checklist[m].pos => Trained(k) < Trained(m)

\* three items with disjoint keys, listed last-positioned first, have been
\* trained on from the empty store
C8_Witness ==
    /\ pc = "done"
    /\ ThreeDistinctPositions
    /\ prior = EmptyDict
    /\ \A k, m \in 1..3 :
          k # m => CandidateSet(checklist[k].name) \cap CandidateSet(checklist[m].name) = {}
    /\ checklist[1].pos > checklist[2].pos
    /\ checklist[2].pos > checklist[3].pos
    /\ Trained(3) < Trained(2)
    /\ Trained(2) < Trained(1)

\* the k-th item is compared with some item: one lies at another position
Compared(k) == \E m \in 1..Len(checklist) : ~Skips(checklist, k, m)

\* the inner loop has already handled the pair of the k-th and m-th item
Processed(k, m) == k < i \/ (pc = "inner" /\ k = i /\ m < j)

BeforeComparison ==
    /\ pc = "inner"
    /\ j <= Len(checklist)
    /\ ~Skips(checklist, i, j)

(* C24: at the start of every inner-loop comparison the running             *)
(* current_score equals what lookup returns for the current item's name on  *)
(* the working store, for every checklist.                                  *)
C24_AccumulatorIsLookup ==
    BeforeComparison => current_score = lookup(heap[scores], checklist[i].name)

\* no item at another position than the i-th has the i-th item's full key
\* among its candidate keys
FullKeyUnshared ==
    \A m \in 1..Len(checklist) :
        ~Skips(checklist, i, m)
            => FullKey(checklist[i].name) \notin CandidateSet(checklist[m].name)

(* C24 as amended: the same for every current item whose full key is not a  *)
(* candidate key of an item at another position.                            *)
C24_AccumulatorIsLookupUnshared ==
    (BeforeComparison /\ FullKeyUnshared)
        => current_score = lookup(heap[scores], checklist[i].name)

\* a two-word item stands before its second comparison, the first one having
\* been with an item that shares a token with it
C24_Witness ==
    /\ BeforeComparison
    /\ FullKeyUnshared
    /\ \E m \in 1..(j - 1) :
          /\ ~Skips(checklist, i, m)
          /\ CandidateSet(checklist[i].name) \cap CandidateSet(checklist[m].name) # {}
    /\ current_score # lookup(prior, checklist[i].name)
    /\ current_score = lookup(heap[scores], checklist[i].name)

\* one comparison step of the inner loop that wrote both ratings
ComparisonStep ==
    /\ BeforeComparison
    /\ pc' = "inner"
    /\ j' = j + 1

\* the earlier-positioned item's rating went down, the later one's up
StepMovesApart ==
    LET current == checklist[i]
        compare == checklist[j]
        compare_score == lookup(heap[scores], compare.name)
        new_compare_score == lookup(heap'[scores], compare.name)
    IN  IF current.pos < compare.pos
        THEN current_score' < current_score /\ new_compare_score > compare_score
        ELSE current_score' > current_score /\ new_compare_score < compare_score

(* C25: in every comparison step between two items of different positions   *)
(* the rating written for the earlier-positioned item is strictly lower     *)
(* than the rating the step read for it, and the one written for the        *)
(* later-positioned item strictly higher, whatever the two ratings were.    *)
C25_StepStrict == [][ComparisonStep => StepMovesApart]_vars

\* the largest difference of the two ratings the amended C25 speaks of
STRICT_GAP == 1000 * Scale

\* the two ratings a comparison starts from differ by at most STRICT_GAP
RatingsClose ==
    LET d == current_score - lookup(heap[scores], checklist[j].name)
    IN  d <= STRICT_GAP /\ -d <= STRICT_GAP

(* C25 as amended: the same for two ratings that differ by at most 1000     *)
(* points.                                                                  *)
C25_StepStrictClose == [][(ComparisonStep /\ RatingsClose) => StepMovesApart]_vars

\* the first item, the earlier of the two, has just been compared with the
\* second: its running score is below the prior rating, the other's above
C25_Witness ==
    /\ pc = "inner"
    /\ i = 1
    /\ j = 3
    /\ checklist[1].pos < checklist[2].pos
    /\ lookup(prior, checklist[1].name) # lookup(prior, checklist[2].name)
    /\ current_score < lookup(prior, checklist[1].name)
    /\ lookup(heap[scores], checklist[2].name) > lookup(prior, checklist[2].name)

\* the candidate keys of the items that take part in a comparison
ComparedKeys ==
    UNION {CandidateSet(checklist[k].name) : k \in {m \in 1..Len(checklist) : Compared(m)}}

(* C27: the store train returns contains every key of the prior store;      *)
(* every key that is not a candidate key of an item taking part in a        *)
(* comparison keeps its prior rating; the only keys added are candidate     *)
(* keys of such items.                                                      *)
C27_TrainFrame ==
    pc = "done" =>
        /\ DOMAIN prior \subseteq DOMAIN heap[scores]
        /\ \A c \in DOMAIN prior : c \notin ComparedKeys => heap[scores][c] = prior[c]
        /\ \A c \in DOMAIN heap[scores] : c \notin DOMAIN prior => c \in ComparedKeys

\* train has returned a store with added keys and changed ratings, in which a
\* key of no compared item still has its prior rating
C27_Witness ==
    /\ pc = "done"
    /\ \E c \in DOMAIN heap[scores] : c \notin DOMAIN prior
    /\ \E c \in DOMAIN prior : c \in ComparedKeys /\ heap[scores][c] # prior[c]
    /\ \E c \in DOMAIN prior : c \notin ComparedKeys /\ heap[scores][c] = prior[c]

-----------------------------------------------------------------------------
(* order_list: the checklists of the cards that carry the order label,     *)
(* one loop step per action                                                *)

POS_OFFSET == 100000

\* math.floor of a rating
Floor(r) == r \div Scale

\* int(x) for a float x: the fraction is dropped, rounding toward zero
IntTrunc(x) == IF x >= 0 THEN x \div Scale ELSE -((-x) \div Scale)

\* the position computed as floor(rating) + 100000
TargetPosFloor(rating) == Floor(rating) + POS_OFFSET

\* pos = int(lookup(scores, checklist_item.name) + 100000)
TargetPos(rating) == IntTrunc(rating + POS_OFFSET * Scale)

\* UNSORTED_RE.search(s): s contains the text sub
Contains(s, sub) ==
    \E k \in 1..(Len(s) - Len(sub) + 1) : SubSeq(s, k, k + Len(sub) - 1) = sub

\* the fields of the dataclass ChecklistItem; none of them has a default
ChecklistItemFields ==
    {"idChecklist", "state", "idMember", "id", "name", "nameData", "pos", "due"}

\* the keyword arguments order_list gives to ChecklistItem(...)
UpdatedItemArgs == {"id", "idChecklist", "name", "pos", "state"}

\* ChecklistItem(...) returns an object when every field is given a value;
\* otherwise the generated __init__ raises TypeError
Constructs(args) == ChecklistItemFields \subseteq args

Str_d == <<"d">>

OrderNames == {Str_a, Str_b, Str_c, Str_d, Str_b_a, Str_c \o UNSORTED_TAG}

OrderPositions == {0, 101000}

\* stores with ratings below -100000, negative, non-integer and default
OrderData ==
    { EmptyDict,
      (Str_a :> -100000500) @@ (Str_b :> -5500) @@ (Str_c :> 1000700)
        @@ (Str_d :> -100001000) }

\* a card of the board: whether it carries the order label, and the items
\* of its checklists
OrderCard(label, checklists) == [label |-> label, checklists |-> checklists]

\* the boards the items its are laid out on: one labelled card with one
\* checklist or with two, and a labelled card after or before an unlabelled
OrderBoards(its) ==
    LET first == SubSeq(its, 1, 1)
        rest  == SubSeq(its, 2, Len(its))
    IN  { <<OrderCard(TRUE, <<its>>)>>,
          <<OrderCard(TRUE, <<first, rest>>)>>,
          <<OrderCard(FALSE, <<first>>), OrderCard(TRUE, <<rest>>)>>,
          <<OrderCard(TRUE, <<first>>), OrderCard(FALSE, <<rest>>)>> }

OrderInit ==
    /\ \E data \in OrderData : heap = (1 :> make_scores(data))
    /\ scores = 1
    /\ \E n \in 1..MaxOrder :
          \E names \in [1..n -> OrderNames], poss \in [1..n -> OrderPositions],
             state \in {"complete", "incomplete"} :
                ocards \in OrderBoards([k \in 1..n |->
                                          [id |-> k, name |-> names[k],
                                           pos |-> poss[k], state |-> state]])
    /\ ocard = 0
    /\ ocl = 0
    /\ oitems = <<>>
    /\ oidx = 0
    /\ opos = 0
    /\ oname = <<>>
    /\ writes = <<>>
    /\ olog = <<>>
    /\ opc = "call"
    /\ last = NoCall
    /\ nmut = 0
    /\ DeriveIdle
    /\ TrainIdle
    /\ QuantityIdle
    /\ PopulateIdle
    /\ TrainSetIdle

\* a client call or an iteration over an item, as logged
OrderEvent(ev, card, id_checklist, item) ==
    [ev |-> ev, card |-> card, cl |-> id_checklist, item |-> item]

\* cards = await client.get_board_cards(prefs.board)
OrderFetch ==
    /\ opc = "call"
    /\ olog' = Append(olog, OrderEvent("get_board_cards", 0, 0, 0))
    /\ ocard' = 1
    /\ opc' = "cards"
    /\ UNCHANGED <<oitems, oidx, opos, writes, ocards, ocl, oname, storeVars,
                   deriveVars, trainVars, quantityVars, trainSetVars, populateVars>>

\* every card takes part as if it carried the order label
order_label_ignored(card) == TRUE

\* has_order_label = any(label.get("name") == prefs.order_label ...)
has_order_label(card) == card.label

\* if not has_order_label: continue
OrderSkipCard ==
    /\ opc = "cards"
    /\ ocard <= Len(ocards)
    /\ ~has_order_label(ocards[ocard])
    /\ ocard' = ocard + 1
    /\ UNCHANGED <<oitems, oidx, opos, writes, ocards, ocl, oname, olog, opc,
                   storeVars, deriveVars, trainVars, quantityVars, trainSetVars, populateVars>>

\* the card carries the label: for id_checklist in card.idChecklists
OrderEnterCard ==
    /\ opc = "cards"
    /\ ocard <= Len(ocards)
    /\ has_order_label(ocards[ocard])
    /\ ocl' = 1
    /\ opc' = "checklists"
    /\ UNCHANGED <<oitems, oidx, opos, writes, ocards, ocard, oname, olog,
                   storeVars, deriveVars, trainVars, quantityVars, trainSetVars, populateVars>>

\* checklist = await client.get_checklist(id_checklist)
OrderGetChecklist ==
    /\ opc = "checklists"
    /\ ocl <= Len(ocards[ocard].checklists)
    /\ oitems' = ocards[ocard].checklists[ocl]
    /\ oidx' = 1
    /\ olog' = Append(olog, OrderEvent("get_checklist", ocard, ocl, 0))
    /\ opc' = "items"
    /\ UNCHANGED <<opos, writes, ocards, ocard, ocl, oname, storeVars,
                   deriveVars, trainVars, quantityVars, trainSetVars, populateVars>>

\* pos = int(lookup(scores, checklist_item.name) + 100000)
ItemTarget(d, name) == TargetPos(lookup(d, name))

\* new_name: the name with the marker appended when the full key has no
\* rating and the name has no marker
ItemNewName(d, name) ==
    LET has_score == FullKey(name) \in DOMAIN d
        has_unsorted_tag == Contains(name, MarkerText)
    IN  IF ~has_score /\ ~has_unsorted_tag THEN name \o UNSORTED_TAG ELSE name

\* one iteration of `for checklist_item in checklist.checkItems`; the item
\* handled is oitems[oidx], and a raised exception ends order_list
OrderItem ==
    /\ opc = "items"
    /\ oidx <= Len(oitems)
    /\ LET checklist_item == oitems[oidx]
           pos == ItemTarget(heap[scores], checklist_item.name)
           new_name == ItemNewName(heap[scores], checklist_item.name)
           updated_item == [id |-> checklist_item.id, name |-> new_name,
                            pos |-> pos, state |-> checklist_item.state]
           iteration == OrderEvent("item", ocard, ocl, checklist_item.id)
           call == OrderEvent("update_checklist_item", ocard, ocl, checklist_item.id)
       IN  /\ opos' = pos
           /\ IF checklist_item.pos = pos
              THEN /\ writes' = writes
                   /\ oname' = oname
                   /\ olog' = Append(olog, iteration)
                   /\ opc' = opc
              ELSE IF Constructs(UpdatedItemArgs)
                   THEN /\ writes' = Append(writes, updated_item)
                        /\ oname' = new_name
                        /\ olog' = olog \o <<iteration, call>>
                        /\ opc' = opc
                   ELSE /\ writes' = writes
                        /\ oname' = new_name
                        /\ olog' = Append(olog, iteration)
                        /\ opc' = "TypeError"
    /\ oidx' = oidx + 1
    /\ UNCHANGED <<oitems, ocards, ocard, ocl, storeVars, deriveVars, trainVars,
                   quantityVars, trainSetVars, populateVars>>

\* the items of the checklist are exhausted: the next checklist of the card
OrderChecklistEnd ==
    /\ opc = "items"
    /\ oidx > Len(oitems)
    /\ ocl' = ocl + 1
    /\ opc' = "checklists"
    /\ UNCHANGED <<oitems, oidx, opos, writes, ocards, ocard, oname, olog,
                   storeVars, deriveVars, trainVars, quantityVars, trainSetVars, populateVars>>

\* await reset_label(client, prefs.order_label, [card.id]): the card is
\* fetched and the label, which it still carries, is removed
OrderResetLabel ==
    /\ opc = "checklists"
    /\ ocl > Len(ocards[ocard].checklists)
    /\ olog' = olog \o <<OrderEvent("get_card", ocard, 0, 0)>>
                    \o (IF ocards[ocard].label
                        THEN <<OrderEvent("remove_label", ocard, 0, 0)>>
                        ELSE <<>>)
    /\ ocard' = ocard + 1
    /\ opc' = "cards"
    /\ UNCHANGED <<oitems, oidx, opos, writes, ocards, ocl, oname, storeVars,
                   deriveVars, trainVars, quantityVars, trainSetVars, populateVars>>

\* the cards are exhausted: order_list returns
OrderReturn ==
    /\ opc = "cards"
    /\ ocard > Len(ocards)
    /\ opc' = "done"
    /\ UNCHANGED <<oitems, oidx, opos, writes, ocards, ocard, ocl, oname, olog,
                   storeVars, deriveVars, trainVars, quantityVars, trainSetVars, populateVars>>

OrderNext ==
    \/ OrderFetch
    \/ OrderSkipCard
    \/ OrderEnterCard
    \/ OrderGetChecklist
    \/ OrderItem
    \/ OrderChecklistEnd
    \/ OrderResetLabel
    \/ OrderReturn

SpecOrder == OrderInit /\ [][OrderNext]_vars

\* the rating lookup resolves for the item processed last
OrderedRating == lookup(heap[scores], oitems[oidx - 1].name)

Handled == oitems[oidx - 1]

\* an update of the item handled last has been written back
HandledWritten == \E w \in 1..Len(writes) : writes[w].id = Handled.id

\* the name written back for the item handled last is n
HandledWrittenAs(n) ==
    \E w \in 1..Len(writes) : writes[w].id = Handled.id /\ writes[w].name = n

\* the number of occurrences of sub in s
RECURSIVE Occurrences(_, _)
Occurrences(s, sub) ==
    IF Len(s) < Len(sub) THEN 0
    ELSE (IF SubSeq(s, 1, Len(sub)) = sub THEN 1 ELSE 0) + Occurrences(Tail(s), sub)

(* C11: when a list is ordered, an update of an item is written back if    *)
(* and only if the item's computed target position differs from the        *)
(* position it has; an item already at its target gets no update.          *)
C11_WrittenIffMoved ==
    oidx > 1 => (HandledWritten <=> Handled.pos # opos)

(* C12: an item whose full key is absent from the store and whose name     *)
(* lacks the unsorted marker has the marker appended to its name when the  *)
(* list is ordered; an item that carries the marker or whose full key is   *)
(* present is written back under its own name; no name written back holds  *)
(* the marker twice.                                                       *)
C12_MarkerAppendedOnce ==
    /\ oidx > 1 =>
          IF FullKey(Handled.name) \notin DOMAIN heap[scores]
               /\ ~Contains(Handled.name, MarkerText)
          THEN HandledWrittenAs(Handled.name \o UNSORTED_TAG)
          ELSE HandledWritten => HandledWrittenAs(Handled.name)
    /\ \A w \in 1..Len(writes) : Occurrences(writes[w].name, MarkerText) <= 1

\* the k-th logged event is of kind ev and belongs to the card c
EventOf(k, ev, c) == olog[k].ev = ev /\ olog[k].card = c

(* C26: order_list removes the order label from a card only after every     *)
(* item of every checklist of that card has been processed, all item        *)
(* updates of the card preceding the removal, and it issues no item update  *)
(* and no label removal for a card that lacks the order label.              *)
C26_LabelRemovedLast ==
    \A k \in 1..Len(olog) :
        /\ olog[k].ev = "remove_label" =>
              LET c == olog[k].card
              IN  /\ \A x \in 1..Len(ocards[c].checklists) :
                        \A n \in 1..Len(ocards[c].checklists[x]) :
                            \E m \in 1..(k - 1) :
                                /\ EventOf(m, "item", c)
                                /\ olog[m].item = ocards[c].checklists[x][n].id
                  /\ \A m \in 1..Len(olog) :
                        EventOf(m, "update_checklist_item", c) => m < k
        /\ olog[k].ev \in {"update_checklist_item", "remove_label", "get_checklist",
                           "item", "get_card"}
              => ocards[olog[k].card].label

\* order_list has returned for a board with an unlabelled card that holds
\* an item away from its target and a labelled card that holds an item: the
\* label of the second was removed and nothing was asked about the first
C26_Witness ==
    /\ opc = "done"
    /\ \E c, u \in 1..Len(ocards) :
          /\ ocards[c].label
          /\ \E x \in 1..Len(ocards[c].checklists) : ocards[c].checklists[x] # <<>>
          /\ \E k \in 1..Len(olog) : EventOf(k, "remove_label", c)
          /\ ~ocards[u].label
          /\ \E x \in 1..Len(ocards[u].checklists) :
                \E n \in 1..Len(ocards[u].checklists[x]) :
                    LET it == ocards[u].checklists[x][n]
                    IN  it.pos # ItemTarget(heap[scores], it.name)
          /\ \A k \in 1..Len(olog) : olog[k].card # u

\* the item handled last has a target other than its position
HandledMoves == oidx > 1 /\ Handled.pos # opos

(* C28: ordering is idempotent: when the name and the position computed    *)
(* for an item that is written back are applied to the item and the item   *)
(* is ordered again with the same store, the second pass derives the same  *)
(* keys from the name with the marker, computes the same target position,  *)
(* so writes nothing, and appends no further marker.                       *)
C28_SecondPassSame ==
    HandledMoves =>
        /\ lookup_candidates(oname) = lookup_candidates(Handled.name)
        /\ ItemTarget(heap[scores], oname) = opos
        /\ ItemNewName(heap[scores], oname) = oname

\* the marker was appended to the name of an item away from its target, and
\* a second pass over that name and the target would find it in place
C28_Witness ==
    /\ HandledMoves
    /\ oname = Handled.name \o UNSORTED_TAG
    /\ lookup_candidates(oname) # <<<<>>>>
    /\ ItemTarget(heap[scores], oname) = opos

-----------------------------------------------------------------------------
(* parse_item_quantity and format_item_with_quantity                       *)

\* c.isdigit() for one character
IsDigitChar(c) == IsDigit(c) \/ c = Sup2

\* s.isdigit(): s is not empty and all its characters are digit characters
IsDigitStr(s) == s # <<>> /\ \A k \in 1..Len(s) : IsDigitChar(s[k])

\* int(s) returns a value: s is not empty and all its characters are decimal
IsDecimalStr(s) == s # <<>> /\ \A k \in 1..Len(s) : IsDigit(s[k])

\* int(s) for a string of decimal digits
RECURSIVE IntValue(_)
IntValue(s) ==
    IF s = <<>> THEN 0
    ELSE 10 * IntValue(SubSeq(s, 1, Len(s) - 1)) + (CodePoint[s[Len(s)]] - 48)

\* str(n) for n >= 0
RECURSIVE IntToStr(_)
IntToStr(n) ==
    LET digit == CHOOSE c \in DOMAIN CodePoint : CodePoint[c] = 48 + (n % 10)
    IN  IF n < 10 THEN <<digit>> ELSE IntToStr(n \div 10) \o <<digit>>

\* s.rsplit(maxsplit=1) for a stripped s: nothing for "", the string itself
\* when it holds no whitespace, otherwise what precedes the last run of
\* whitespace and what follows it
RSplit1(s) ==
    IF s = <<>> THEN <<>>
    ELSE IF \A k \in 1..Len(s) : ~IsSpace(s[k]) THEN <<s>>
    ELSE LET k == CHOOSE m \in 1..Len(s) :
                      IsSpace(s[m]) /\ \A n \in (m + 1)..Len(s) : ~IsSpace(s[n])
         IN  <<RStrip(SubSeq(s, 1, k - 1)), SubSeq(s, k + 1, Len(s))>>

\* the call returned (base_name, quantity)
Returns(base_name, quantity) ==
    [raises |-> "", base |-> base_name, quantity |-> quantity]

\* the call raised the exception exc
Raises(exc) == [raises |-> exc, base |-> <<>>, quantity |-> 0]

\* parsing that takes an all-digit last token as the quantity even when it
\* is the only token of the name
parse_item_quantity_any_last(item_name) ==
    LET parts == RSplit1(Strip(item_name))
    IN  IF Len(parts) >= 1 /\ IsDigitStr(parts[Len(parts)])
        THEN IF IsDecimalStr(parts[Len(parts)])
             THEN Returns(IF Len(parts) = 2 THEN parts[1] ELSE <<>>,
                          IntValue(parts[Len(parts)]))
             ELSE Raises("ValueError")
        ELSE Returns(Strip(item_name), 1)

\* parse_item_quantity(item_name)
parse_item_quantity(item_name) ==
    LET parts == RSplit1(Strip(item_name))
    IN  IF Len(parts) = 2 /\ IsDigitStr(parts[2])
        THEN IF IsDecimalStr(parts[2])
             THEN Returns(parts[1], IntValue(parts[2]))
             ELSE Raises("ValueError")
        ELSE Returns(Strip(item_name), 1)

\* a format that appends every quantity
format_item_always(base_name, quantity) ==
    base_name \o <<" ">> \o IntToStr(quantity)

\* format that appends every quantity but 1
format_item_unless_one(base_name, quantity) ==
    IF quantity # 1 THEN base_name \o <<" ">> \o IntToStr(quantity) ELSE base_name

\* format_item_with_quantity(base_name, quantity)
format_item_with_quantity(base_name, quantity) ==
    IF quantity > 1 THEN base_name \o <<" ">> \o IntToStr(quantity) ELSE base_name

QuantityPieces ==
    { <<"a">>, <<"a", " ", "2">>, <<" ", "2">>, <<"1">>, <<" ", "1">>, <<"0">>,
      <<" ", "0">>, <<" ">>, <<" ", Sup2>>, <<"B", " ", " ", "c">>,
      <<"\t", "1", "b">> }

QuantityNames == NamesOver(QuantityPieces)

QuantityInit ==
    /\ qin \in QuantityNames
    /\ qparsed = NotParsed
    /\ qformatted = <<>>
    /\ qreparsed = NotParsed
    /\ qpc = "parse"
    /\ heap = (1 :> EmptyDict)
    /\ scores = 1
    /\ last = NoCall
    /\ nmut = 0
    /\ DeriveIdle
    /\ TrainIdle
    /\ OrderIdle
    /\ PopulateIdle
    /\ TrainSetIdle

\* base_name, quantity = parse_item_quantity(item_name)
ParseCall ==
    /\ qpc = "parse"
    /\ qparsed' = parse_item_quantity(qin)
    /\ qpc' = IF parse_item_quantity(qin).raises = "" THEN "format" ELSE "raised"
    /\ UNCHANGED <<qin, qformatted, qreparsed, storeVars, deriveVars, trainVars, orderVars,
                   populateVars, trainSetVars>>

\* formatted_name = format_item_with_quantity(base_name, quantity)
FormatCall ==
    /\ qpc = "format"
    /\ qformatted' = format_item_with_quantity(qparsed.base, qparsed.quantity)
    /\ qpc' = "reparse"
    /\ UNCHANGED <<qin, qparsed, qreparsed, storeVars, deriveVars, trainVars,
                   orderVars, populateVars, trainSetVars>>

\* parse_item_quantity(formatted_name): the written name is read again
ReparseCall ==
    /\ qpc = "reparse"
    /\ qreparsed' = parse_item_quantity(qformatted)
    /\ qpc' = "done"
    /\ UNCHANGED <<qin, qparsed, qformatted, storeVars, deriveVars, trainVars,
                   orderVars, populateVars, trainSetVars>>

QuantityNext == ParseCall \/ FormatCall \/ ReparseCall

SpecQuantity == QuantityInit /\ [][QuantityNext]_vars

\* the whitespace-delimited tokens of s, as s.split() gives them
RECURSIVE Tokens(_)
Tokens(s) ==
    LET t == LStrip(s)
    IN  IF t = <<>> THEN <<>>
        ELSE IF \A k \in 1..Len(t) : ~IsSpace(t[k]) THEN <<t>>
        ELSE LET k == CHOOSE m \in 1..Len(t) :
                          IsSpace(t[m]) /\ \A n \in 1..(m - 1) : ~IsSpace(t[n])
             IN  <<SubSeq(t, 1, k - 1)>> \o Tokens(SubSeq(t, k, Len(t)))

\* the last token of qin is not empty and made of digit characters only
LastTokenAllDigits ==
    Tokens(qin) # <<>> /\ IsDigitStr(Tokens(qin)[Len(Tokens(qin))])

\* qin without its last token and the whitespace before that token
PrefixOfLastToken ==
    LET s == Strip(qin)
    IN  RStrip(SubSeq(s, 1, Len(s) - Len(Tokens(qin)[Len(Tokens(qin))])))

(* C14: parse_item_quantity returns (remaining prefix, integer value of    *)
(* the last token) when the last whitespace-delimited token of the name    *)
(* is made of digit characters only, and (trimmed full name, 1) otherwise; *)
(* a name that is a single all-digit token is such a name.                 *)
C14_LastTokenIsQuantity ==
    (qpc \in {"format", "done"}) =>
        IF LastTokenAllDigits
        THEN /\ qparsed.base = PrefixOfLastToken
             /\ qparsed.quantity = IntValue(Tokens(qin)[Len(Tokens(qin))])
        ELSE qparsed.base = Strip(qin) /\ qparsed.quantity = 1

(* C14 as amended: when the name has at least two whitespace-delimited     *)
(* tokens and the last one is made of digit characters only, the result    *)
(* is (remaining prefix, integer value of the last token) if those are     *)
(* decimal digits, and the call raises ValueError if one of them is a      *)
(* digit character that is not a decimal digit; otherwise, and so for a    *)
(* name that is a single all-digit token, the result is                    *)
(* (trimmed full name, 1).                                                 *)
C14_LastOfSeveralTokensIsQuantity ==
    qpc # "parse" =>
        IF Len(Tokens(qin)) >= 2 /\ LastTokenAllDigits
        THEN IF IsDecimalStr(Tokens(qin)[Len(Tokens(qin))])
             THEN /\ qparsed.raises = ""
                  /\ qparsed.base = PrefixOfLastToken
                  /\ qparsed.quantity = IntValue(Tokens(qin)[Len(Tokens(qin))])
             ELSE qparsed.raises = "ValueError"
        ELSE qparsed.raises = "" /\ qparsed.base = Strip(qin) /\ qparsed.quantity = 1

\* a name that is a single all-digit token has been parsed
C14_Witness ==
    /\ qpc = "done"
    /\ Len(Tokens(qin)) = 1
    /\ LastTokenAllDigits
    /\ qparsed.quantity = 1
    /\ qparsed.base = Strip(qin)

\* s has at least two tokens, the last made of digit characters only
EndsInQuantityToken(s) ==
    Len(Tokens(s)) >= 2 /\ IsDigitStr(Tokens(s)[Len(Tokens(s))])

(* C29: quantity round trip: for every item name, parse, format and parse   *)
(* again yields the same (base, quantity) pair as the first parse.          *)
C29_RoundTrip ==
    qpc = "done" => qreparsed = qparsed

(* C29 as amended: for every item name parse returns a pair for, parse,     *)
(* format and parse again yields that pair exactly when its quantity is at  *)
(* least 2, or is 1 with a base that does not itself end, after another     *)
(* token, in a token of digit characters.                                   *)
C29_RoundTripFromTwo ==
    qpc = "done" =>
        (qreparsed = qparsed <=>
            \/ qparsed.quantity >= 2
            \/ qparsed.quantity = 1 /\ ~EndsInQuantityToken(qparsed.base))

\* a name whose base ends in a number has been parsed with another number
\* as its quantity, formatted and parsed to the same pair
C29_Witness ==
    /\ qpc = "done"
    /\ qparsed.quantity >= 2
    /\ EndsInQuantityToken(qparsed.base)
    /\ qreparsed = qparsed

(* C22: all core functions are total: for every item name parse_item_-      *)
(* quantity, like the other core functions, ends with a result and never    *)
(* in an error.                                                             *)
C22_ParseNeverRaises ==
    qpc # "raised" /\ qparsed.raises = "" /\ qreparsed.raises = ""

-----------------------------------------------------------------------------
(* populate_shopping_list: the items of the selected recipes are           *)
(* consolidated and added to the first checklist of every card that        *)
(* carries the populate label                                              *)

\* a remote operation made through the client
Op(op, card, id_checklist, item, name, state) ==
    [op |-> op, card |-> card, cl |-> id_checklist, item |-> item,
     name |-> name, state |-> state]

\* recipe_card.idChecklists: the first recipe card has two checklists, the
\* second has one
RecipeChecklists == <<(<<1, 2>>), (<<1>>)>>

\* the state the remote side holds for an item: the state of the last
\* update_checklist_item made for it, or else the state it began with
RemoteState(it) ==
    LET upd == {k \in 1..Len(ops) :
                    ops[k].op = "update_checklist_item" /\ ops[k].item = it.id}
    IN  IF upd = {} THEN it.state
        ELSE ops[CHOOSE k \in upd : \A m \in upd : m <= k].state

\* get_checklist(id_checklist).checkItems for a checklist of a recipe card
ItemsOf(card, id_checklist) ==
    LET items == SelectSeq(source, LAMBDA it : it.card = card /\ it.cl = id_checklist)
    IN  [k \in 1..Len(items) |-> [items[k] EXCEPT !.state = RemoteState(items[k])]]

\* get_list_cards(selected_list): the recipe cards now in the selected list
SelectedNow == SelectSeq(<<1, 2>>, LAMBDA c : rlist[c] = "selected")

\* every card is taken to carry the populate label
labelled_always(card) == TRUE

\* any(label.get("name") == prefs.populate_label for label in card.labels)
has_populate_label(card) == card.label

\* every item is taken into the consolidation
CountedAlways(checklist_item) == TRUE

\* the item is not skipped by `if checklist_item.state == "complete": continue`
Counted(checklist_item) == checklist_item.state # "complete"

\* the index of the entry of data under key, 0 when there is none
IndexOf(data, key) ==
    IF \E k \in 1..Len(data) : data[k].key = key
    THEN CHOOSE k \in 1..Len(data) : data[k].key = key
    ELSE 0

\* data without its k-th entry
Without(data, k) == SubSeq(data, 1, k - 1) \o SubSeq(data, k + 1, Len(data))

\* merging that moves the entry of a repeated base to the end
MergeMovingToEnd(data, base_name, quantity) ==
    LET key == Lower(base_name)
        k == IndexOf(data, key)
    IN  IF k # 0
        THEN Append(Without(data, k), [data[k] EXCEPT !.quantity = @ + quantity])
        ELSE Append(data, [key |-> key, name |-> base_name, quantity |-> quantity])

\* merging that shows the casing of the last occurrence
MergeLastCasing(data, base_name, quantity) ==
    LET key == Lower(base_name)
        k == IndexOf(data, key)
    IN  IF k # 0
        THEN [data EXCEPT ![k] = [key |-> key, name |-> base_name,
                                  quantity |-> @.quantity + quantity]]
        ELSE Append(data, [key |-> key, name |-> base_name, quantity |-> quantity])

\* if base_name_lower in item_data: add the quantity to the entry; else
\* insert (base_name, quantity) under base_name_lower
Merge(data, base_name, quantity) ==
    LET key == Lower(base_name)
        k == IndexOf(data, key)
    IN  IF k # 0
        THEN [data EXCEPT ![k].quantity = @ + quantity]
        ELSE Append(data, [key |-> key, name |-> base_name, quantity |-> quantity])

\* for checklist_item in checklist.checkItems (first loop): the dict
\* afterwards, or the exception parse_item_quantity raised
RECURSIVE ConsolidateItems(_, _)
ConsolidateItems(items, data) ==
    IF items = <<>> THEN [data |-> data, raises |-> ""]
    ELSE IF ~Counted(Head(items)) THEN ConsolidateItems(Tail(items), data)
    ELSE LET parsed == parse_item_quantity(Head(items).name)
         IN  IF parsed.raises # ""
             THEN [data |-> data, raises |-> parsed.raises]
             ELSE ConsolidateItems(Tail(items),
                                   Merge(data, parsed.base, parsed.quantity))

\* for id_checklist in recipe_card.idChecklists (first loop)
RECURSIVE ConsolidateChecklists(_, _, _)
ConsolidateChecklists(card, cls, acc) ==
    IF cls = <<>> \/ acc.raises # "" THEN acc
    ELSE LET r == ConsolidateItems(ItemsOf(card, Head(cls)), acc.data)
         IN  ConsolidateChecklists(card, Tail(cls),
                 [data |-> r.data, raises |-> r.raises,
                  ops |-> Append(acc.ops,
                                 Op("get_checklist", card, Head(cls), 0, <<>>, ""))])

\* if checklist_item.state == "complete" (second loop)
NeedsReset(checklist_item) == checklist_item.state = "complete"

\* the update_checklist_item calls of the second loop for one checklist
ResetItems(card, id_checklist) ==
    LET items == SelectSeq(ItemsOf(card, id_checklist), NeedsReset)
    IN  [k \in 1..Len(items) |->
            Op("update_checklist_item", card, id_checklist, items[k].id,
               items[k].name, "incomplete")]

\* for id_checklist in recipe_card.idChecklists (second loop)
RECURSIVE ResetChecklists(_, _)
ResetChecklists(card, cls) ==
    IF cls = <<>> THEN <<>>
    ELSE <<Op("get_checklist", card, Head(cls), 0, <<>>, "")>>
           \o ResetItems(card, Head(cls)) \o ResetChecklists(card, Tail(cls))

\* for original_name, total_quantity in item_data.values(): add_checklist_item
AddItems(data) ==
    [k \in 1..Len(data) |->
        Op("add_checklist_item", 0, target_checklist_id, 0,
           format_item_with_quantity(data[k].name, data[k].quantity), "")]

MaxSource == 3      \* items on the checklists of the selected recipe cards

Str_A_2 == <<"A", " ", "2">>
Str_b_sup2 == <<"b", " ", Sup2>>
Str_b_0 == <<"b", " ", "0">>

\* names for the runs with one labelled card: two casings of one base, one
\* of them with a quantity, and another base with the quantity 0
PopulateNames == {Str_a, Str_A_2, Str_b_0}

\* names for the runs over every board: one that parses, one that raises
BoardRunNames == {Str_A_2, Str_b_sup2}

\* the places an item can be at: (recipe card, checklist of that card)
Places == <<[card |-> 1, cl |-> 1], [card |-> 1, cl |-> 2], [card |-> 2, cl |-> 1]>>

\* the checklists of the selected recipes: at most n items with names from
\* the set names, laid out over the places in order
SourcesOver(names, n) ==
    UNION { { [k \in 1..m |-> [card |-> Places[at[k]].card, cl |-> Places[at[k]].cl,
                               id |-> k, name |-> nm[k], state |-> st[k]]] :
                nm \in [1..m -> names],
                st \in [1..m -> {"complete", "incomplete"}],
                at \in {f \in [1..m -> 1..Len(Places)] :
                            \A k \in 1..(m - 1) : f[k] <= f[k + 1]} } :
            m \in 0..n }

Unlabelled == [label |-> FALSE, idChecklists |-> <<>>]
LabelledEmpty == [label |-> TRUE, idChecklists |-> <<>>]
LabelledWithList == [label |-> TRUE, idChecklists |-> <<"T">>]

\* boards of one or two cards
Boards ==
    { <<c>> : c \in {Unlabelled, LabelledEmpty, LabelledWithList} }
      \cup { <<c, d>> : c \in {Unlabelled, LabelledEmpty, LabelledWithList},
                        d \in {Unlabelled, LabelledWithList} }

PopulateInit ==
    /\ \/ board = <<LabelledWithList>> /\ source \in SourcesOver(PopulateNames, MaxSource)
       \/ board \in Boards /\ source \in SourcesOver(BoardRunNames, MaxSource - 1)
    /\ rlist = <<"selected", "selected">>
    /\ selected_recipes = <<>>
    /\ item_data = <<>>
    /\ target_checklist_id = ""
    /\ ops = <<>>
    /\ ppc = "fetch"
    /\ pcard = 0
    /\ prec = 0
    /\ heap = (1 :> EmptyDict)
    /\ scores = 1
    /\ last = NoCall
    /\ nmut = 0
    /\ DeriveIdle
    /\ TrainIdle
    /\ OrderIdle
    /\ QuantityIdle
    /\ TrainSetIdle

\* cards = await client.get_board_cards(prefs.board)
PopFetch ==
    /\ ppc = "fetch"
    /\ ops' = Append(ops, Op("get_board_cards", 0, "", 0, <<>>, ""))
    /\ ppc' = "cards"
    /\ pcard' = 1
    /\ UNCHANGED <<board, source, rlist, selected_recipes, item_data,
                   target_checklist_id, prec, storeVars, deriveVars, trainVars,
                   orderVars, quantityVars, trainSetVars>>

\* for card in cards: a card without the populate label is passed over
PopSkip ==
    /\ ppc = "cards"
    /\ pcard <= Len(board)
    /\ ~has_populate_label(board[pcard])
    /\ pcard' = pcard + 1
    /\ UNCHANGED <<board, source, rlist, selected_recipes, item_data,
                   target_checklist_id, ops, ppc, prec, storeVars, deriveVars,
                   trainVars, orderVars, quantityVars, trainSetVars>>

\* a labelled card: the selected recipes are fetched, item_data is emptied
\* and the target checklist is chosen or created
PopSelect ==
    /\ ppc = "cards"
    /\ pcard <= Len(board)
    /\ has_populate_label(board[pcard])
    /\ selected_recipes' = SelectedNow
    /\ item_data' = <<>>
    /\ IF board[pcard].idChecklists = <<>>
       THEN /\ ops' = ops \o <<Op("get_list_cards", 0, "", 0, <<>>, ""),
                               Op("create_checklist", pcard, "", 0, <<>>, "")>>
            /\ target_checklist_id' = "new"
       ELSE /\ ops' = Append(ops, Op("get_list_cards", 0, "", 0, <<>>, ""))
            /\ target_checklist_id' = board[pcard].idChecklists[1]
    /\ ppc' = "consolidate"
    /\ prec' = 1
    /\ UNCHANGED <<board, source, rlist, pcard, storeVars, deriveVars, trainVars,
                   orderVars, quantityVars, trainSetVars>>

\* first `for recipe_card in selected_recipes`: one recipe card
PopConsolidate ==
    /\ ppc = "consolidate"
    /\ prec <= Len(selected_recipes)
    /\ LET recipe_card == selected_recipes[prec]
           r == ConsolidateChecklists(recipe_card, RecipeChecklists[recipe_card],
                                      [data |-> item_data, raises |-> "", ops |-> ops])
       IN  /\ item_data' = r.data
           /\ ops' = r.ops
           /\ ppc' = IF r.raises = "" THEN ppc ELSE r.raises
    /\ prec' = prec + 1
    /\ UNCHANGED <<board, source, rlist, selected_recipes, target_checklist_id,
                   pcard, storeVars, deriveVars, trainVars, orderVars,
                   quantityVars, trainSetVars>>

\* the consolidated items are added to the target checklist
PopAdd ==
    /\ ppc = "consolidate"
    /\ prec > Len(selected_recipes)
    /\ ops' = ops \o AddItems(item_data)
    /\ ppc' = "reset"
    /\ prec' = 1
    /\ UNCHANGED <<board, source, rlist, selected_recipes, item_data,
                   target_checklist_id, pcard, storeVars, deriveVars, trainVars,
                   orderVars, quantityVars, trainSetVars>>

\* second `for recipe_card in selected_recipes`: the complete items of one
\* recipe card are reset and the card is moved to the available list
PopReset ==
    /\ ppc = "reset"
    /\ prec <= Len(selected_recipes)
    /\ LET recipe_card == selected_recipes[prec]
       IN  /\ ops' = ops \o ResetChecklists(recipe_card, RecipeChecklists[recipe_card])
                         \o <<Op("move_card_to_list", recipe_card, "", 0, <<>>, "")>>
           /\ rlist' = [rlist EXCEPT ![recipe_card] = "available"]
    /\ prec' = prec + 1
    /\ UNCHANGED <<board, source, selected_recipes, item_data, target_checklist_id, ppc,
                   pcard, storeVars, deriveVars, trainVars, orderVars,
                   quantityVars, trainSetVars>>

\* await reset_label(client, prefs.populate_label, [card.id])
PopUnlabel ==
    /\ ppc = "reset"
    /\ prec > Len(selected_recipes)
    /\ ops' = ops \o <<Op("get_card", pcard, "", 0, <<>>, ""),
                       Op("remove_label", pcard, "", 0, <<>>, "")>>
    /\ ppc' = "cards"
    /\ pcard' = pcard + 1
    /\ UNCHANGED <<board, source, rlist, selected_recipes, item_data,
                   target_checklist_id, prec, storeVars, deriveVars, trainVars,
                   orderVars, quantityVars, trainSetVars>>

\* the loop over the board's cards has ended
PopReturn ==
    /\ ppc = "cards"
    /\ pcard > Len(board)
    /\ ppc' = "done"
    /\ UNCHANGED <<board, source, rlist, selected_recipes, item_data,
                   target_checklist_id, ops, pcard, prec, storeVars, deriveVars,
                   trainVars, orderVars, quantityVars, trainSetVars>>

PopulateNext ==
    \/ PopFetch
    \/ PopSkip
    \/ PopSelect
    \/ PopConsolidate
    \/ PopAdd
    \/ PopReset
    \/ PopUnlabel
    \/ PopReturn

SpecPopulate == PopulateInit /\ [][PopulateNext]_vars

\* the place in ops of the last get_list_cards, 0 when there is none
LastSelect ==
    LET sel == {k \in 1..Len(ops) : ops[k].op = "get_list_cards"}
    IN  IF sel = {} THEN 0 ELSE CHOOSE k \in sel : \A m \in sel : m <= k

\* the names added to the target checklist for the card being processed
AddedNow ==
    LET adds == SelectSeq(SubSeq(ops, LastSelect + 1, Len(ops)),
                          LAMBDA o : o.op = "add_checklist_item")
    IN  [k \in 1..Len(adds) |-> adds[k].name]

\* the consolidated items of the card being processed have been added
Emitted == ppc = "reset" \/ (ppc = "cards" /\ LastSelect > 0)

\* the source items of the selected recipes that began incomplete and whose
\* name parse_item_quantity gives a result for
IsInput(it) ==
    /\ \E r \in 1..Len(selected_recipes) : selected_recipes[r] = it.card
    /\ it.state # "complete"
    /\ parse_item_quantity(it.name).raises = ""

BaseOf(it) == parse_item_quantity(it.name).base

KeyOf(it) == Lower(BaseOf(it))

InputKeys == {KeyOf(source[k]) : k \in {m \in 1..Len(source) : IsInput(source[m])}}

\* the sum of the parsed quantities of the first n source items under key
RECURSIVE SumQuantity(_, _)
SumQuantity(n, key) ==
    IF n = 0 THEN 0
    ELSE SumQuantity(n - 1, key)
         + (IF IsInput(source[n]) /\ KeyOf(source[n]) = key
            THEN parse_item_quantity(source[n].name).quantity ELSE 0)

\* the place in source of the first input item under key
FirstOf(key) ==
    CHOOSE k \in 1..Len(source) :
        /\ IsInput(source[k]) /\ KeyOf(source[k]) = key
        /\ \A m \in 1..(k - 1) : ~(IsInput(source[m]) /\ KeyOf(source[m]) = key)

\* what was added is what item_data holds, entry by entry
AddedIsItemData ==
    /\ Len(AddedNow) = Len(item_data)
    /\ \A k \in 1..Len(item_data) :
          AddedNow[k] = format_item_with_quantity(item_data[k].name,
                                                  item_data[k].quantity)

(* C15: consolidation emits exactly one entry for every distinct lowercase *)
(* base name among the incomplete source items, and the quantity of the    *)
(* entry is the sum of the parsed quantities of the incomplete source      *)
(* items with that lowercase base.                                         *)
C15_OneEntryPerBaseWithSum ==
    (Emitted \/ ppc = "ValueError") =>
        /\ AddedIsItemData
        /\ {item_data[k].key : k \in 1..Len(item_data)} = InputKeys
        /\ Len(item_data) = Cardinality(InputKeys)
        /\ \A k \in 1..Len(item_data) :
              item_data[k].quantity = SumQuantity(Len(source), item_data[k].key)

\* the source items that count for the card being processed
Inputs == {k \in 1..Len(source) : IsInput(source[k])}

(* C16: the displayed base name of every consolidated entry is the         *)
(* original-case base of the first incomplete source item, in encounter    *)
(* order, with that lowercase base; later occurrences change the quantity  *)
(* only.                                                                   *)
C16_FirstCasingDisplayed ==
    /\ \A k \in 1..Len(item_data) :
          /\ item_data[k].key \in InputKeys
          /\ item_data[k].name = BaseOf(source[FirstOf(item_data[k].key)])
    /\ Emitted => AddedIsItemData

\* two incomplete items with one lowercase base and different casing were
\* merged, and the entry is shown with the casing of the first and the sum
C16_Witness ==
    /\ Emitted
    /\ \E a, b \in Inputs :
          /\ a < b
          /\ KeyOf(source[a]) = KeyOf(source[b])
          /\ BaseOf(source[a]) # BaseOf(source[b])
          /\ \E k \in 1..Len(item_data) :
                /\ item_data[k].key = KeyOf(source[a])
                /\ item_data[k].quantity > 1
                /\ AddedNow[k] = BaseOf(source[a]) \o <<" ">>
                                   \o IntToStr(item_data[k].quantity)

(* C17: the consolidated entries are added to the target checklist in the  *)
(* order in which their lowercase bases were first met across recipe       *)
(* cards, checklists and items; a later duplicate does not move an entry.  *)
C17_FirstEncounterOrder ==
    /\ \A k, m \in 1..Len(item_data) :
          k < m => /\ item_data[k].key \in InputKeys
                   /\ item_data[m].key \in InputKeys
                   /\ FirstOf(item_data[k].key) < FirstOf(item_data[m].key)
    /\ Emitted => AddedIsItemData

\* a base met on the first recipe card, then another base, then the first
\* base again on the second recipe card: two entries, the first base first
C17_Witness ==
    /\ Emitted
    /\ Len(AddedNow) = 2
    /\ \E a, b, c \in Inputs :
          /\ a < b /\ b < c
          /\ KeyOf(source[a]) = KeyOf(source[c])
          /\ KeyOf(source[a]) # KeyOf(source[b])
          /\ source[a].card # source[c].card
          /\ item_data[1].key = KeyOf(source[a])
          /\ item_data[2].key = KeyOf(source[b])

\* the lowercase base of the name of a source item that began complete
CompleteKey(it) ==
    IF parse_item_quantity(it.name).raises = "" THEN KeyOf(it) ELSE <<>>

(* C18: items that are complete take no part in the consolidation: they    *)
(* create no entry, add nothing to a quantity and never give an entry its  *)
(* casing, also when an incomplete item with the same base comes before    *)
(* or after them.                                                          *)
C18_CompleteExcluded ==
    Emitted =>
        \A k \in 1..Len(item_data) :
            /\ \E n \in Inputs : KeyOf(source[n]) = item_data[k].key
            /\ item_data[k].quantity = SumQuantity(Len(source), item_data[k].key)
            /\ \E n \in Inputs : BaseOf(source[n]) = item_data[k].name

\* a complete item before and a complete item after an incomplete item of
\* the same lowercase base, with another casing and quantity: the entry
\* shown is the incomplete item alone; a complete item alone gives no entry
C18_Witness ==
    /\ Emitted
    /\ \E c1, n, c2 \in 1..Len(source) :
          /\ c1 < n /\ n < c2
          /\ n \in Inputs
          /\ source[c1].state = "complete" /\ source[c2].state = "complete"
          /\ CompleteKey(source[c1]) = KeyOf(source[n])
          /\ CompleteKey(source[c2]) = KeyOf(source[n])
          /\ BaseOf(source[c1]) # BaseOf(source[n])
          /\ parse_item_quantity(source[c1].name).quantity > 1
          /\ AddedNow = <<source[n].name>>
          /\ item_data[1].quantity = 1

\* the places in ops of the operations named op
PlacesOf(op) == {k \in 1..Len(ops) : ops[k].op = op}

\* populate_shopping_list has ended, by returning or by an exception
Ended == ppc \in {"done", "ValueError"}

(* C19: when a card with the populate label is processed, then for every   *)
(* recipe card in the selected list: every item that is complete gets an   *)
(* update that sets it incomplete, an incomplete item gets no update, the  *)
(* updates of a card come before the move of that card, and every such     *)
(* card is moved to the available list; all of this comes after the        *)
(* consolidated items were added to the target checklist.                  *)
C19_ResetThenMoved ==
    (Ended /\ LastSelect > 0) =>
        \A c \in 1..Len(rlist) :
            \E mv \in PlacesOf("move_card_to_list") :
                /\ ops[mv].card = c
                /\ rlist[c] = "available"
                /\ \A a \in PlacesOf("add_checklist_item") : a < mv
                /\ \A n \in 1..Len(source) :
                      source[n].card = c =>
                          LET upd == {u \in PlacesOf("update_checklist_item") :
                                          ops[u].item = source[n].id}
                          IN  IF source[n].state = "complete"
                              THEN /\ upd # {}
                                   /\ \A u \in upd :
                                         /\ ops[u].state = "incomplete"
                                         /\ u < mv
                                         /\ \A a \in PlacesOf("add_checklist_item") : a < u
                              ELSE upd = {}

\* no card of the board carries the populate label
NoPopulateLabel == \A c \in 1..Len(board) : ~board[c].label

(* C20: if no card of the board carries the populate label,                *)
(* populate_shopping_list makes no remote operation but the one fetch of   *)
(* the board's cards: nothing is created, added, updated, moved or         *)
(* unlabelled.                                                             *)
C20_NoLabelOnlyFetch ==
    NoPopulateLabel =>
        /\ Len(ops) <= 1
        /\ \A k \in 1..Len(ops) : ops[k].op = "get_board_cards"
        /\ ppc # "fetch" => Len(ops) = 1
        /\ rlist = <<"selected", "selected">>

\* populate_shopping_list has returned for a board of two cards without the
\* label while the selected recipes hold items, complete ones among them
C20_Witness ==
    /\ ppc = "done"
    /\ NoPopulateLabel
    /\ Len(board) = 2
    /\ \E n \in 1..Len(source) : source[n].state = "complete"
    /\ ops = <<Op("get_board_cards", 0, "", 0, <<>>, "")>>

\* s ends with the text t
EndsWith(s, t) ==
    Len(s) >= Len(t) /\ SubSeq(s, Len(s) - Len(t) + 1, Len(s)) = t

\* the parsed quantities of the input items under key are all 0
OnlyZeroQuantities(key) ==
    \A k \in Inputs :
        KeyOf(source[k]) = key => parse_item_quantity(source[k].name).quantity = 0

(* C30: every consolidated entry has an aggregate quantity of at least 1,   *)
(* and the display name emitted for it ends with the quantity exactly when  *)
(* the quantity is greater than 1.                                          *)
C30_QuantityAtLeastOne ==
    Emitted =>
        /\ AddedIsItemData
        /\ \A k \in 1..Len(item_data) :
              /\ item_data[k].quantity >= 1
              /\ EndsWith(AddedNow[k], <<" ">> \o IntToStr(item_data[k].quantity))
                    <=> item_data[k].quantity > 1

(* C30 as amended: every consolidated entry has an aggregate quantity of at *)
(* least 0, which is 0 exactly when every item merged into it carries the   *)
(* explicit quantity 0; the display name emitted for it is the base, a      *)
(* space and the quantity when the quantity is greater than 1, and the base *)
(* alone otherwise.                                                         *)
C30_QuantityShownAboveOne ==
    Emitted =>
        /\ AddedIsItemData
        /\ \A k \in 1..Len(item_data) :
              /\ item_data[k].quantity >= 0
              /\ item_data[k].quantity = 0 <=> OnlyZeroQuantities(item_data[k].key)
              /\ AddedNow[k] =
                    IF item_data[k].quantity > 1
                    THEN item_data[k].name \o <<" ">> \o IntToStr(item_data[k].quantity)
                    ELSE item_data[k].name

\* an entry of quantity 0 was emitted as its bare base, before or after an
\* entry of a quantity above 1 that was emitted with the quantity
C30_Witness ==
    /\ Emitted
    /\ \E k, m \in 1..Len(item_data) :
          /\ item_data[k].quantity = 0
          /\ AddedNow[k] = item_data[k].name
          /\ item_data[m].quantity > 1
          /\ EndsWith(AddedNow[m], <<" ">> \o IntToStr(item_data[m].quantity))

-----------------------------------------------------------------------------
(* get_train_set: the checklists of the cards that carry the train label   *)

MaxCards == 3       \* cards of the board the training set is taken from

\* the checklists a card lists: none, one or two
MaxCardChecklists == 2

\* a card of the board: whether it carries the train label, and the ids of
\* its checklists
TrainCard(label, ids) == [label |-> label, idChecklists |-> ids]

\* the number of checklists on the first n cards that list counts[k] each
RECURSIVE CountBefore(_, _)
CountBefore(counts, n) ==
    IF n = 0 THEN 0 ELSE CountBefore(counts, n - 1) + counts[n]

\* boards of n cards: every choice of labels and of checklist counts, the
\* checklist ids numbered over the board upwards or downwards
TrainBoards(n) ==
    { [c \in 1..n |->
          TrainCard(labels[c],
                    [x \in 1..counts[c] |->
                        IF up THEN CountBefore(counts, c - 1) + x
                        ELSE CountBefore(counts, n) + 1 - (CountBefore(counts, c - 1) + x)])] :
        labels \in [1..n -> BOOLEAN],
        counts \in [1..n -> 0..MaxCardChecklists],
        up \in BOOLEAN }

TrainSetInit ==
    /\ \E n \in 0..MaxCards : tcards \in TrainBoards(n)
    /\ tidx = 0
    /\ train_checklist_ids = <<>>
    /\ train_checklists = <<>>
    /\ tlog = <<>>
    /\ tpc = "call"
    /\ heap = (1 :> EmptyDict)
    /\ scores = 1
    /\ last = NoCall
    /\ nmut = 0
    /\ DeriveIdle
    /\ TrainIdle
    /\ OrderIdle
    /\ QuantityIdle
    /\ PopulateIdle

\* cards = await client.get_board_cards(prefs.board)
TrainSetFetch ==
    /\ tpc = "call"
    /\ tlog' = Append(tlog, [op |-> "get_board_cards", id |-> 0])
    /\ tidx' = 1
    /\ tpc' = "cards"
    /\ UNCHANGED <<tcards, train_checklist_ids, train_checklists, storeVars,
                   deriveVars, trainVars, orderVars, quantityVars, populateVars>>

\* every card counts as carrying the train label
train_label_ignored(card) == TRUE

\* has_train_label = any(label.get("name") == prefs.train_label ...)
has_train_label(card) == card.label

\* the ids put in front of the ones collected so far
extend_front(ids, more) == more \o ids

\* train_checklist_ids.extend(card.idChecklists)
extend(ids, more) == ids \o more

\* one iteration of `for card in cards`
TrainSetCard ==
    /\ tpc = "cards"
    /\ tidx <= Len(tcards)
    /\ train_checklist_ids' =
          IF has_train_label(tcards[tidx])
          THEN extend(train_checklist_ids, tcards[tidx].idChecklists)
          ELSE train_checklist_ids
    /\ tidx' = tidx + 1
    /\ UNCHANGED <<tcards, train_checklists, tlog, tpc, storeVars, deriveVars,
                   trainVars, orderVars, quantityVars, populateVars>>

\* the cards are exhausted: train_checklists = []
TrainSetCardsEnd ==
    /\ tpc = "cards"
    /\ tidx > Len(tcards)
    /\ tidx' = 1
    /\ tpc' = "checklists"
    /\ UNCHANGED <<tcards, train_checklist_ids, train_checklists, tlog, storeVars,
                   deriveVars, trainVars, orderVars, quantityVars, populateVars>>

\* checklist = await client.get_checklist(checklist_id); it is appended
TrainSetGetChecklist ==
    /\ tpc = "checklists"
    /\ tidx <= Len(train_checklist_ids)
    /\ tlog' = Append(tlog, [op |-> "get_checklist", id |-> train_checklist_ids[tidx]])
    /\ train_checklists' = Append(train_checklists, [id |-> train_checklist_ids[tidx]])
    /\ tidx' = tidx + 1
    /\ UNCHANGED <<tcards, train_checklist_ids, tpc, storeVars, deriveVars,
                   trainVars, orderVars, quantityVars, populateVars>>

\* return train_checklists
TrainSetReturn ==
    /\ tpc = "checklists"
    /\ tidx > Len(train_checklist_ids)
    /\ tpc' = "done"
    /\ UNCHANGED <<tcards, tidx, train_checklist_ids, train_checklists, tlog,
                   storeVars, deriveVars, trainVars, orderVars, quantityVars,
                   populateVars>>

TrainSetNext ==
    \/ TrainSetFetch
    \/ TrainSetCard
    \/ TrainSetCardsEnd
    \/ TrainSetGetChecklist
    \/ TrainSetReturn

SpecTrainSet == TrainSetInit /\ [][TrainSetNext]_vars

\* the checklist ids the first n cards list, labelled cards only, in card
\* order and within a card in the order the card lists them
RECURSIVE ListedOnLabelled(_)
ListedOnLabelled(n) ==
    IF n = 0 THEN <<>>
    ELSE ListedOnLabelled(n - 1)
         \o (IF tcards[n].label THEN tcards[n].idChecklists ELSE <<>>)

(* C21: get_train_set returns exactly the checklists listed on the cards    *)
(* that carry the train label, in card order and within a card in checklist *)
(* order, and no checklist of a card that lacks the label; it returns the   *)
(* empty list when no card carries the label.                               *)
C21_TrainSetIsLabelled ==
    tpc = "done" =>
        /\ [k \in 1..Len(train_checklists) |-> train_checklists[k].id]
              = ListedOnLabelled(Len(tcards))
        /\ \A k \in 1..Len(train_checklists) :
              \A c \in 1..Len(tcards) :
                  (\E x \in 1..Len(tcards[c].idChecklists) :
                      tcards[c].idChecklists[x] = train_checklists[k].id)
                    => tcards[c].label
        /\ (\A c \in 1..Len(tcards) : ~tcards[c].label) => train_checklists = <<>>

\* get_train_set has returned the three checklists of two labelled cards,
\* between which lies an unlabelled card with a checklist; the ids are not
\* in increasing order
C21_Witness ==
    /\ tpc = "done"
    /\ Len(tcards) = 3
    /\ tcards[1].label /\ ~tcards[2].label /\ tcards[3].label
    /\ Len(tcards[1].idChecklists) = 2
    /\ Len(tcards[2].idChecklists) = 1
    /\ Len(tcards[3].idChecklists) = 1
    /\ Len(train_checklists) = 3
    /\ train_checklists[1].id > train_checklists[2].id

====
